---- MODULE Spec2Model ----
(***************************************************************************)
(* Model of the hh-validator server: the /validate handler validateFiles   *)
(* in its two variants (server/main.go and the init-first variant), the    *)
(* /health handler, the temporary workspace on the filesystem and the      *)
(* 'hhfab' subprocess invocations.  Strings are sequences of one-character *)
(* strings so that substring search and equality are computed, not assumed.*)
(***************************************************************************)
EXTENDS Integers, Sequences, FiniteSets, TLC

\* ---- bounds ----
NumReqs == 2
NumNames == 2

Reqs == 1..NumReqs
TempNames == 1..NumNames

\* ---- HTTP status codes (net/http) ----
StatusOK == 200
StatusBadRequest == 400
StatusInternalServerError == 500
StatusServiceUnavailable == 503

\* declared in the const block; no statement of the handlers refers to it
TimeoutSec == 30

\* ---- string literals of the handlers ----
MsgParseForm == <<"F","a","i","l","e","d"," ","t","o"," ","p","a","r","s","e"," ","m","u","l","t","i","p","a","r","t"," ","f","o","r","m">>
MsgMissingWiring == <<"M","i","s","s","i","n","g"," ","r","e","q","u","i","r","e","d"," ","w","i","r","i","n","g"," ","f","i","l","e">>
ErrWiringRequired == <<"w","i","r","i","n","g"," ","f","i","l","e"," ","i","s"," ","r","e","q","u","i","r","e","d">>
MsgMkdirTemp == <<"F","a","i","l","e","d"," ","t","o"," ","c","r","e","a","t","e"," ","t","e","m","p","o","r","a","r","y"," ","d","i","r","e","c","t","o","r","y">>
MsgSaveWiring == <<"F","a","i","l","e","d"," ","t","o"," ","s","a","v","e"," ","w","i","r","i","n","g"," ","f","i","l","e">>
MsgSaveFab == <<"F","a","i","l","e","d"," ","t","o"," ","s","a","v","e"," ","f","a","b"," ","f","i","l","e">>
MsgMkWork == <<"F","a","i","l","e","d"," ","t","o"," ","c","r","e","a","t","e"," ","w","o","r","k"," ","d","i","r","e","c","t","o","r","y">>
MsgMkInclude == <<"F","a","i","l","e","d"," ","t","o"," ","c","r","e","a","t","e"," ","i","n","c","l","u","d","e"," ","d","i","r","e","c","t","o","r","y">>
MsgRemoveFab == <<"F","a","i","l","e","d"," ","t","o"," ","r","e","m","o","v","e"," ","d","e","f","a","u","l","t"," ","f","a","b",".","y","a","m","l">>
MsgInitFailed == <<"F","a","i","l","e","d"," ","t","o"," ","i","n","i","t","i","a","l","i","z","e"," ","h","h","f","a","b">>
ErrInitPrefix == <<"h","h","f","a","b"," ","i","n","i","t"," ","f","a","i","l","e","d",":"," ">>
MsgValidationFailed == <<"V","a","l","i","d","a","t","i","o","n"," ","f","a","i","l","e","d">>
MsgRunFailed == <<"F","a","i","l","e","d"," ","t","o"," ","r","u","n"," ","v","a","l","i","d","a","t","i","o","n">>
MsgValid == <<"F","a","b","r","i","c","a","t","o","r"," ","c","o","n","f","i","g"," ","a","n","d"," ","w","i","r","i","n","g"," ","a","r","e"," ","v","a","l","i","d">>
UnknownValidationError == <<"U","n","k","n","o","w","n"," ","v","a","l","i","d","a","t","i","o","n"," ","e","r","r","o","r">>
ERR == <<"E","R","R">>

\* ---- err.Error() texts produced by the runtime (samples) ----
ErrParse == <<"u","n","e","x","p","e","c","t","e","d"," ","E","O","F">>
ErrOS == <<"p","e","r","m","i","s","s","i","o","n"," ","d","e","n","i","e","d">>
ErrNotFound == <<"e","x","e","c",":"," ","\"","h","h","f","a","b","\"",":"," ","e","x","e","c","u","t","a","b","l","e"," ","f","i","l","e"," ","n","o","t"," ","f","o","u","n","d"," ","i","n"," ","$","P","A","T","H">>
ErrExit == <<"e","x","i","t"," ","s","t","a","t","u","s"," ","1">>

\* ---- combined outputs the external tool may print (samples) ----
OutValid == <<"I","N","F"," ","v","e","r","s","i","o","n","=","v","0","\n","I","N","F"," ","F","a","b","r","i","c","a","t","o","r"," ","c","o","n","f","i","g"," ","a","n","d"," ","w","i","r","i","n","g"," ","a","r","e"," ","v","a","l","i","d">>
OutErr == <<"0","6",":","3","8"," ","E","R","R"," ","v","a","l","i","d","a","t","i","n","g",":"," ","b","a","d","\n">>
OutCrash == <<"p","a","n","i","c",":"," ","n","i","l"," ","m","a","p">>

\* ---- pure helpers ----
\* strings.Contains(s, sub)
Contains(s, sub) ==
  \E i \in 1..(Len(s) - Len(sub) + 1) : SubSeq(s, i, i + Len(sub) - 1) = sub

\* strings.TrimSpace
IsSpace(c) == c \in {" ", "\n", "\t", "\r"}
RECURSIVE TrimLeft(_)
TrimLeft(s) == IF s # <<>> /\ IsSpace(Head(s)) THEN TrimLeft(Tail(s)) ELSE s
RECURSIVE TrimRight(_)
TrimRight(s) ==
  IF s # <<>> /\ IsSpace(s[Len(s)]) THEN TrimRight(SubSeq(s, 1, Len(s) - 1)) ELSE s
TrimSpace(s) == TrimRight(TrimLeft(s))

\* variation: the captured output is trimmed before it is returned
outputStr_Trimmed(validateOutput) == TrimSpace(validateOutput)

\* outputStr := string(validateOutput): a byte-for-byte copy
outputStr(validateOutput) == SubSeq(validateOutput, 1, Len(validateOutput))

\* strings.Index(s, sub), 1-based; 0 when sub does not occur
Index(s, sub) ==
  IF Contains(s, sub)
  THEN CHOOSE i \in 1..(Len(s) - Len(sub) + 1) :
         /\ SubSeq(s, i, i + Len(sub) - 1) = sub
         /\ \A j \in 1..(i - 1) : SubSeq(s, j, j + Len(sub) - 1) # sub
  ELSE 0

\* strings.Split(s, "\n")
RECURSIVE Split(_)
Split(s) ==
  IF Contains(s, <<"\n">>)
  THEN LET i == Index(s, <<"\n">>)
       IN <<SubSeq(s, 1, i - 1)>> \o Split(SubSeq(s, i + 1, Len(s)))
  ELSE <<s>>

\* variation: the text after the marker is returned without trimming
RECURSIVE extractFromLines_NoTrim(_)
extractFromLines_NoTrim(lines) ==
  IF lines = <<>> THEN UnknownValidationError
  ELSE LET line == Head(lines)
           idx == Index(line, ERR \o <<" ">>)
       IN IF Contains(line, ERR) /\ idx # 0
          THEN SubSeq(line, idx + 4, Len(line))
          ELSE extractFromLines_NoTrim(Tail(lines))

\* extractErrorMessage(output): the loop over the lines
RECURSIVE extractFromLines(_)
extractFromLines(lines) ==
  IF lines = <<>> THEN UnknownValidationError
  ELSE LET line == Head(lines)
           idx == Index(line, ERR \o <<" ">>)
       IN IF Contains(line, ERR) /\ idx # 0
          THEN TrimSpace(SubSeq(line, idx + 4, Len(line)))
          ELSE extractFromLines(Tail(lines))
extractErrorMessage(output) == extractFromLines(Split(output))

\* ---- filesystem: one record per possible temporary directory name ----
None == 0
Default == -1
NoDir == [exists |-> FALSE, wiring |-> None, fab |-> None, work |-> FALSE,
          workFab |-> None, include |-> FALSE, includeWiring |-> None]
EmptyDir == [NoDir EXCEPT !.exists = TRUE]

\* variation: one fixed shared directory instead of a fresh name
MkdirTempNames_Fixed(f) == {1}

\* os.MkdirTemp("", "validator-*"): the names it may create (it retries on
\* a name that already exists)
MkdirTempNames(f) == {d \in TempNames : ~f[d].exists}

\* variation: os.Remove, which only removes an empty directory
RemoveAll_OnlyEmpty(f, d) == IF f[d] = EmptyDir THEN [f EXCEPT ![d] = NoDir] ELSE f

\* os.RemoveAll(tempDir)
RemoveAll(f, d) == [f EXCEPT ![d] = NoDir]

\* ---- responses ----
NoResp == [status |-> 0, success |-> FALSE, message |-> <<>>, output |-> <<>>,
           useCase |-> "", error |-> <<>>]
Response(st, ok, msg, out, uc, err) ==
  [status |-> st, success |-> ok, message |-> msg, output |-> out,
   useCase |-> uc, error |-> err]

RespParseForm == Response(StatusBadRequest, FALSE, MsgParseForm, <<>>, "", ErrParse)
\* variation: the missing file reported as an internal error
RespMissingWiring_ServerError ==
  Response(StatusInternalServerError, FALSE, MsgMissingWiring, <<>>, "", ErrWiringRequired)
RespMissingWiring ==
  Response(StatusBadRequest, FALSE, MsgMissingWiring, <<>>, "", ErrWiringRequired)
\* the filesystem failure responses: none of them sets UseCase
RespFsFailure(msg) == Response(StatusInternalServerError, FALSE, msg, <<>>, "", ErrOS)

\* ---- results of one exec.Command(...).CombinedOutput() ----
NoRun == [kind |-> "none", code |-> 0, out |-> <<>>]
NotFound == [kind |-> "notfound", code |-> -1, out |-> <<>>]
Exit(c, o) == [kind |-> "exit", code |-> c, out |-> o]
ToolRuns == {Exit(0, OutValid), Exit(1, OutErr), Exit(1, OutCrash)}
\* err.Error() of a failed CombinedOutput
RunErr(res) == IF res.kind = "notfound" THEN ErrNotFound ELSE ErrExit
Failed(res) == res.kind = "notfound" \/ res.code # 0

\* ---- the order of the steps of validateFiles in each variant ----
Variants == {"server", "part_001"}
\* variation: the init-first variant running validate right after init
NextPc_NoStaging(v, p, uc) ==
  IF v = "server"
  THEN CASE p = "mkdirTemp" -> "saveWiring"
         [] p = "saveWiring" -> IF uc = "uc1" THEN "mkWork" ELSE "saveFab"
         [] p = "saveFab" -> "mkWork"
         [] p = "mkWork" -> "init"
         [] p = "init" -> "validate"
         [] OTHER -> "done"
  ELSE CASE p = "mkdirTemp" -> "mkWork"
         [] p = "mkWork" -> "init"
         [] p = "init" -> "mkInclude"
         [] p = "mkInclude" -> "validate"
         [] OTHER -> "done"

\* variation: server/main.go running the tool's init before staging the files
NextPc_InitFirst(v, p, uc) ==
  CASE p = "mkdirTemp" -> "mkWork"
    [] p = "mkWork" -> "init"
    [] p = "init" -> "saveWiring"
    [] p = "saveWiring" -> IF uc = "uc1" THEN "validate" ELSE "saveFab"
    [] p = "saveFab" -> "validate"
    [] OTHER -> "done"
NextPc(v, p, uc) ==
  IF v = "server"
  THEN CASE p = "mkdirTemp" -> "saveWiring"
         [] p = "saveWiring" -> IF uc = "uc1" THEN "mkWork" ELSE "saveFab"
         [] p = "saveFab" -> "mkWork"
         [] p = "mkWork" -> "init"
         [] p = "init" -> "validate"
         [] OTHER -> "done"
  ELSE CASE p = "mkdirTemp" -> "mkWork"
         [] p = "mkWork" -> "init"
         [] p = "init" -> "mkInclude"
         [] p = "mkInclude" -> "saveWiring"
         [] p = "saveWiring" -> IF uc = "uc1" THEN "validate" ELSE "removeFab"
         [] p = "removeFab" -> "saveFab"
         [] p = "saveFab" -> "validate"
         [] OTHER -> "done"

\* ---- state ----
VARIABLES
  variant,      \* which validateFiles the running server binary contains
  hhfabOnPath,  \* whether exec.LookPath("hhfab") succeeds right now
  fs,           \* TempNames -> directory record
  pc,           \* Reqs -> position of the handler goroutine
  useCase,      \* Reqs -> local variable useCase
  tempDir,      \* Reqs -> local variable tempDir (None before MkdirTemp)
  resp,         \* Reqs -> the response written with c.JSON
  hist,         \* Reqs -> what the request has done so far (history)
  health,       \* the last /health response
  ex,           \* one run of the output formatting on a given tool output
  cli           \* one run of the CLI client

vars == <<variant, hhfabOnPath, fs, pc, useCase, tempDir, resp, hist, health, ex, cli>>

NoHist == [form |-> "none", initCalls |-> 0, validateCalls |-> 0,
           initRes |-> NoRun, valRes |-> NoRun, fsFail |-> "none",
           read |-> {}, created |-> FALSE, jsonCalls |-> 0]
NoHealth == [status |-> 0, state |-> "", found |-> FALSE]

\* nothing of the formatting run and of the CLI run is going on
ExOff == [pc |-> "off", output |-> <<>>, code |-> 0, summary |-> <<>>, resp |-> NoResp]
CliOff == [pc |-> "off", wiringFile |-> "", fabFile |-> "", serverURL |-> "valid",
           verbose |-> FALSE, form |-> {}, sent |-> FALSE, reply |-> "none",
           printed |-> {}, exit |-> -1]

\* the server after start-up, no request received yet
InitServer ==
  /\ variant \in Variants
  /\ hhfabOnPath \in BOOLEAN
  /\ fs = [d \in TempNames |-> NoDir]
  /\ pc = [r \in Reqs |-> "idle"]
  /\ useCase = [r \in Reqs |-> ""]
  /\ tempDir = [r \in Reqs |-> None]
  /\ resp = [r \in Reqs |-> NoResp]
  /\ hist = [r \in Reqs |-> NoHist]
  /\ health = NoHealth

Init ==
  /\ InitServer
  /\ ex = ExOff
  /\ cli = CliOff

\* c.JSON(status, response); return -- with the deferred os.RemoveAll(tempDir)
\* when the defer has been registered (tempDir set).  h is the history so far.
Finish(r, response, h) ==
  /\ resp' = [resp EXCEPT ![r] = response]
  /\ hist' = [hist EXCEPT ![r] = [h EXCEPT !.jsonCalls = @ + 1]]
  /\ pc' = [pc EXCEPT ![r] = "done"]
  /\ fs' = IF tempDir[r] # None THEN RemoveAll(fs, tempDir[r]) ELSE fs
  /\ tempDir' = [tempDir EXCEPT ![r] = None]
  /\ UNCHANGED <<variant, hhfabOnPath, useCase, health, ex, cli>>

\* continue with the next statement
Goto(r, p, newFs, h) ==
  /\ pc' = [pc EXCEPT ![r] = p]
  /\ fs' = newFs
  /\ hist' = [hist EXCEPT ![r] = h]
  /\ UNCHANGED <<variant, hhfabOnPath, useCase, tempDir, resp, health, ex, cli>>

\* form, err := c.MultipartForm(); the wiring check; useCase
Forms == {"unparsable", "empty", "fabOnly", "wiring", "both"}
Receive(r) ==
  /\ pc[r] = "idle"
  /\ \E f \in Forms :
       LET h == [hist[r] EXCEPT !.form = f] IN
       CASE f = "unparsable" -> Finish(r, RespParseForm, h)
         [] f \in {"empty", "fabOnly"} -> Finish(r, RespMissingWiring, h)
         [] OTHER ->
              /\ useCase' = [useCase EXCEPT ![r] = IF f = "both" THEN "uc2" ELSE "uc1"]
              /\ pc' = [pc EXCEPT ![r] = "mkdirTemp"]
              /\ hist' = [hist EXCEPT ![r] = h]
              /\ UNCHANGED <<variant, hhfabOnPath, fs, tempDir, resp, health, ex, cli>>

\* tempDir, err := os.MkdirTemp("", "validator-*"); defer os.RemoveAll(tempDir)
MkdirTemp(r) ==
  /\ pc[r] = "mkdirTemp"
  /\ \/ \E d \in MkdirTempNames(fs) :
          /\ tempDir' = [tempDir EXCEPT ![r] = d]
          /\ fs' = [fs EXCEPT ![d] = EmptyDir]
          /\ pc' = [pc EXCEPT ![r] = NextPc(variant, "mkdirTemp", useCase[r])]
          /\ hist' = [hist EXCEPT ![r].created = TRUE]
          /\ UNCHANGED <<variant, hhfabOnPath, useCase, resp, health, ex, cli>>
     \/ Finish(r, RespFsFailure(MsgMkdirTemp), [hist[r] EXCEPT !.fsFail = "mkdirTemp"])

\* the destination of an uploaded file in each variant
WiringField(v) == IF v = "server" THEN "wiring" ELSE "includeWiring"
FabField(v) == IF v = "server" THEN "fab" ELSE "workFab"

\* variation: the return after the failure response is missing
SaveWiring_NoReturn(r) ==
  /\ pc[r] = "saveWiring"
  /\ \/ Goto(r, NextPc(variant, "saveWiring", useCase[r]),
             [fs EXCEPT ![tempDir[r]][WiringField(variant)] = r], hist[r])
     \/ /\ resp' = [resp EXCEPT ![r] = RespFsFailure(MsgSaveWiring)]
        /\ hist' = [hist EXCEPT ![r].fsFail = "saveWiring", ![r].jsonCalls = @ + 1]
        /\ pc' = [pc EXCEPT ![r] = NextPc(variant, "saveWiring", useCase[r])]
        /\ UNCHANGED <<variant, hhfabOnPath, fs, useCase, tempDir, health, ex, cli>>

\* c.SaveUploadedFile(wiringFile, wiringPath)
SaveWiring(r) ==
  /\ pc[r] = "saveWiring"
  /\ \/ Goto(r, NextPc(variant, "saveWiring", useCase[r]),
             [fs EXCEPT ![tempDir[r]][WiringField(variant)] = r], hist[r])
     \/ Finish(r, RespFsFailure(MsgSaveWiring), [hist[r] EXCEPT !.fsFail = "saveWiring"])

\* c.SaveUploadedFile(fabFile, fabPath)
SaveFab(r) ==
  /\ pc[r] = "saveFab"
  /\ \/ Goto(r, NextPc(variant, "saveFab", useCase[r]),
             [fs EXCEPT ![tempDir[r]][FabField(variant)] = r], hist[r])
     \/ Finish(r, RespFsFailure(MsgSaveFab), [hist[r] EXCEPT !.fsFail = "saveFab"])

\* os.MkdirAll(workDir, 0755)
MkWork(r) ==
  /\ pc[r] = "mkWork"
  /\ \/ Goto(r, NextPc(variant, "mkWork", useCase[r]),
             [fs EXCEPT ![tempDir[r]].work = TRUE], hist[r])
     \/ Finish(r, RespFsFailure(MsgMkWork), [hist[r] EXCEPT !.fsFail = "mkWork"])

\* os.MkdirAll(includeDir, 0755)
MkInclude(r) ==
  /\ pc[r] = "mkInclude"
  /\ \/ Goto(r, NextPc(variant, "mkInclude", useCase[r]),
             [fs EXCEPT ![tempDir[r]].include = TRUE], hist[r])
     \/ Finish(r, RespFsFailure(MsgMkInclude), [hist[r] EXCEPT !.fsFail = "mkInclude"])

\* os.Remove(defaultFabPath)
RemoveFab(r) ==
  /\ pc[r] = "removeFab"
  /\ \/ /\ fs[tempDir[r]].workFab # None
        /\ Goto(r, NextPc(variant, "removeFab", useCase[r]),
                [fs EXCEPT ![tempDir[r]].workFab = None], hist[r])
     \/ Finish(r, RespFsFailure(MsgRemoveFab), [hist[r] EXCEPT !.fsFail = "removeFab"])

\* ---- the external tool ----
Hang == [kind |-> "hang", code |-> 0, out |-> <<>>]

\* what 'hhfab init' reads: the paths given with -w and -c (server/main.go);
\* nothing in the variant that initialises an empty directory
InitReads(v, dir, uc) ==
  IF v = "server"
  THEN {dir.wiring} \cup (IF uc = "uc2" THEN {dir.fab} ELSE {})
  ELSE {}
\* what a successful 'hhfab init' leaves in workDir
InitEffect(v, dir, uc) ==
  IF v = "server"
  THEN [dir EXCEPT !.workFab = IF uc = "uc2" THEN dir.fab ELSE Default,
                   !.include = TRUE, !.includeWiring = dir.wiring]
  ELSE [dir EXCEPT !.workFab = Default]
\* what 'hhfab validate' reads: the contents of its working directory
ValidateReads(dir) == {dir.workFab, dir.includeWiring}

InitFailedResponse(v, res, uc) ==
  Response(IF v = "server" THEN StatusBadRequest ELSE StatusInternalServerError,
           FALSE, MsgInitFailed, res.out, uc, ErrInitPrefix \o RunErr(res))

\* variation: the error summary is filled in on the success response as well
ValidateResponse_ErrorOnSuccess(v, res, uc) ==
  LET out == outputStr(res.out) IN
  IF Failed(res)
  THEN IF v = "server" /\ ~Contains(out, ERR)
       THEN Response(StatusInternalServerError, FALSE, MsgRunFailed, out, uc, RunErr(res))
       ELSE Response(StatusBadRequest, FALSE, IF v = "server" THEN MsgValidationFailed ELSE out,
                     out, uc, IF v = "server" THEN extractErrorMessage(out) ELSE <<>>)
  ELSE Response(StatusOK, TRUE, IF v = "server" THEN MsgValid ELSE out, out, uc,
                extractErrorMessage(out))

\* variation: the exact output is returned with status 200 whatever the exit code
ValidateResponse_AlwaysOK(v, res, uc) ==
  LET out == outputStr(res.out) IN
  IF Failed(res)
  THEN Response(StatusOK, FALSE, IF v = "server" THEN MsgValidationFailed ELSE out,
                out, uc, IF v = "server" THEN extractErrorMessage(out) ELSE <<>>)
  ELSE Response(StatusOK, TRUE, IF v = "server" THEN MsgValid ELSE out, out, uc, <<>>)

ValidateResponse(v, res, uc) ==
  LET out == outputStr(res.out) IN
  IF v = "server"
  THEN IF Failed(res)
       THEN IF Contains(out, ERR)
            THEN Response(StatusBadRequest, FALSE, MsgValidationFailed, out, uc,
                          extractErrorMessage(out))
            ELSE Response(StatusInternalServerError, FALSE, MsgRunFailed, out, uc,
                          RunErr(res))
       ELSE Response(StatusOK, TRUE, MsgValid, out, uc, <<>>)
  ELSE IF Failed(res)
       THEN Response(StatusBadRequest, FALSE, out, out, uc, <<>>)
       ELSE Response(StatusOK, TRUE, out, out, uc, <<>>)

\* the outcomes of one CombinedOutput(): the executable is not found, or the
\* process runs and exits, or it runs and never exits (no timeout is set)
Outcomes == IF hhfabOnPath THEN ToolRuns \cup {Hang} ELSE {NotFound}

\* initCmd := exec.Command("hhfab", initArgs...); initCmd.CombinedOutput()
RunInit(r) ==
  /\ pc[r] = "init"
  /\ \E res \in Outcomes :
       LET dir == fs[tempDir[r]]
           h == [hist[r] EXCEPT !.initCalls = @ + 1, !.initRes = res,
                   !.read = IF res.kind = "notfound" THEN @
                            ELSE @ \cup InitReads(variant, dir, useCase[r])]
       IN CASE res.kind = "hang" -> Goto(r, "hung", fs, h)
            [] Failed(res) -> Finish(r, InitFailedResponse(variant, res, useCase[r]), h)
            [] OTHER -> Goto(r, NextPc(variant, "init", useCase[r]),
                             [fs EXCEPT ![tempDir[r]] = InitEffect(variant, dir, useCase[r])], h)

\* variation: a failed validate is run a second time
RunValidate_Retry(r) ==
  /\ pc[r] = "validate"
  /\ \E res \in Outcomes :
       LET dir == fs[tempDir[r]]
           h == [hist[r] EXCEPT !.validateCalls = @ + 1, !.valRes = res,
                   !.read = IF res.kind = "notfound" THEN @
                            ELSE @ \cup ValidateReads(dir)]
       IN CASE res.kind = "hang" -> Goto(r, "hung", fs, h)
            [] Failed(res) /\ hist[r].validateCalls = 0 -> Goto(r, "validate", fs, h)
            [] OTHER -> Finish(r, ValidateResponse(variant, res, useCase[r]), h)

\* validateCmd := exec.Command("hhfab", "validate"); validateCmd.CombinedOutput()
RunValidate(r) ==
  /\ pc[r] = "validate"
  /\ \E res \in Outcomes :
       LET dir == fs[tempDir[r]]
           h == [hist[r] EXCEPT !.validateCalls = @ + 1, !.valRes = res,
                   !.read = IF res.kind = "notfound" THEN @
                            ELSE @ \cup ValidateReads(dir)]
       IN IF res.kind = "hang"
          THEN Goto(r, "hung", fs, h)
          ELSE Finish(r, ValidateResponse(variant, res, useCase[r]), h)

\* ---- the environment and /health ----
\* hhfab is installed on, or removed from, the execution path
PathChange ==
  /\ hhfabOnPath' = ~hhfabOnPath
  /\ UNCHANGED <<variant, fs, pc, useCase, tempDir, resp, hist, health, ex, cli>>

\* getHealth: exec.LookPath("hhfab")
getHealth ==
  /\ health' = IF hhfabOnPath
               THEN [status |-> StatusOK, state |-> "healthy", found |-> TRUE]
               ELSE [status |-> StatusServiceUnavailable, state |-> "unhealthy",
                     found |-> FALSE]
  /\ UNCHANGED <<variant, hhfabOnPath, fs, pc, useCase, tempDir, resp, hist, ex, cli>>

validateFiles(r) ==
  \/ Receive(r)
  \/ MkdirTemp(r)
  \/ SaveWiring(r)
  \/ SaveFab(r)
  \/ MkWork(r)
  \/ MkInclude(r)
  \/ RemoveFab(r)
  \/ RunInit(r)
  \/ RunValidate(r)

Next ==
  \/ \E r \in Reqs : validateFiles(r)
  \/ PathChange
  \/ getHealth

Spec == Init /\ [][Next]_vars

\* the Go scheduler runs every runnable handler goroutine; nothing makes the
\* external tool exit
FairSpec == Spec /\ \A r \in Reqs : WF_vars(validateFiles(r))

TypeOK ==
  /\ variant \in Variants
  /\ hhfabOnPath \in BOOLEAN
  /\ \A r \in Reqs : pc[r] \in {"idle", "mkdirTemp", "saveWiring", "saveFab", "mkWork",
                               "mkInclude", "removeFab", "init", "validate", "hung", "done"}
  /\ \A r \in Reqs : tempDir[r] \in TempNames \cup {None}

\* ---- the formatting of one captured tool output, on its own ----
MaxChunks == 5
\* the pieces the enumerated outputs are made of
Chunks == {ERR, <<" ">>, <<"\n">>, <<"x">>}
RECURSIVE ChunkStrings(_)
ChunkStrings(n) ==
  IF n = 0 THEN {<<>>}
  ELSE LET prev == ChunkStrings(n - 1)
       IN prev \cup {s \o c : s \in prev, c \in Chunks}
ToolOutputs == ChunkStrings(MaxChunks)

serverVars == <<variant, hhfabOnPath, fs, pc, useCase, tempDir, resp, hist, health>>

\* 'hhfab validate' has printed ex.output and exited with ex.code
InitExtract ==
  /\ InitServer
  /\ hhfabOnPath
  /\ cli = CliOff
  /\ \E o \in ToolOutputs, c \in {0, 1} :
       ex = [ExOff EXCEPT !.pc = "captured", !.output = o, !.code = c]

\* extractErrorMessage(outputStr), as TestErrorMessageExtraction calls it
Extract ==
  /\ ex.pc = "captured"
  /\ ex' = [ex EXCEPT !.pc = "extracted", !.summary = extractErrorMessage(ex.output)]
  /\ UNCHANGED <<serverVars, cli>>

\* the response validateFiles builds from the captured output and exit code
Format ==
  /\ ex.pc = "captured"
  /\ ex' = [ex EXCEPT !.pc = "responded",
                       !.resp = ValidateResponse(variant, Exit(ex.code, ex.output), "uc1")]
  /\ UNCHANGED <<serverVars, cli>>

NextExtract ==
  \/ Extract
  \/ Format

SpecExtract == InitExtract /\ [][NextExtract]_vars

\* ---- the CLI client ----
\* what a path given on the command line names: nothing given, no such file,
\* a file that cannot be opened, a readable file
PathKinds == {"", "absent", "unreadable", "file"}
\* os.Stat(path) fails with an error for which os.IsNotExist holds
IsNotExist(path) == path = "absent"
\* os.Open(path) succeeds
CanOpen(path) == path = "file"

\* validateInputFiles() returns an error
InputError(w, f) ==
  \/ w = ""
  \/ IsNotExist(w)
  \/ f # "" /\ IsNotExist(f)

\* the form fields createMultipartRequest adds
FormFields(w, f) == {"wiring"} \cup (IF f # "" THEN {"fab"} ELSE {})

\* variation: the exit code does not depend on the response
ExitCode_AlwaysZero(reply) == 0

\* runValidate: os.Exit(1) if !response.Success, else return nil
ExitCode(reply) == IF reply = "success" THEN 0 ELSE 1

\* what the server's answer can be for the client
Replies == {"transportError", "unparsable", "success", "failure"}

InitCli ==
  /\ InitServer
  /\ variant = "server"
  /\ hhfabOnPath
  /\ ex = ExOff
  /\ \E w \in PathKinds, f \in PathKinds, u \in {"valid", "invalid"}, v \in BOOLEAN :
       cli = [CliOff EXCEPT !.pc = "validateInputFiles", !.wiringFile = w,
                            !.fabFile = f, !.serverURL = u, !.verbose = v]

\* main: the error returned by runValidate is printed, os.Exit(1)
CliFail == [cli EXCEPT !.pc = "exited", !.exit = 1, !.printed = @ \cup {"Error"}]

\* validateInputFiles, and the configuration printed when verbose
validateInputFiles ==
  /\ cli.pc = "validateInputFiles"
  /\ cli' = IF InputError(cli.wiringFile, cli.fabFile)
            THEN CliFail
            ELSE [cli EXCEPT !.pc = "createMultipartRequest",
                             !.printed = IF cli.verbose THEN {"Configuration"} ELSE {}]
  /\ UNCHANGED <<serverVars, ex>>

\* createMultipartRequest with addFileToForm for each given path
createMultipartRequest ==
  /\ cli.pc = "createMultipartRequest"
  /\ cli' = IF \/ ~CanOpen(cli.wiringFile)
               \/ cli.fabFile # "" /\ ~CanOpen(cli.fabFile)
            THEN CliFail
            ELSE [cli EXCEPT !.pc = "makeRequest",
                             !.form = FormFields(cli.wiringFile, cli.fabFile)]
  /\ UNCHANGED <<serverVars, ex>>

\* makeRequest: http.NewRequest, client.Do, io.ReadAll, json.Unmarshal
makeRequest ==
  /\ cli.pc = "makeRequest"
  /\ \/ /\ cli.serverURL = "invalid"
        /\ cli' = CliFail
     \/ /\ cli.serverURL = "valid"
        /\ \E reply \in Replies :
             cli' = IF reply \in {"transportError", "unparsable"}
                    THEN [CliFail EXCEPT !.sent = TRUE, !.reply = reply]
                    ELSE [cli EXCEPT !.pc = "displayResults", !.sent = TRUE,
                                     !.reply = reply]
  /\ UNCHANGED <<serverVars, ex>>

\* displayResults(response), then the exit of the process
displayResults ==
  /\ cli.pc = "displayResults"
  /\ cli' = [cli EXCEPT !.pc = "exited", !.exit = ExitCode(cli.reply),
                        !.printed = @ \cup {cli.reply}]
  /\ UNCHANGED <<serverVars, ex>>

NextCli ==
  \/ validateInputFiles
  \/ createMultipartRequest
  \/ makeRequest
  \/ displayResults

SpecCli == InitCli /\ [][NextCli]_vars

\* ---- properties ----
Done(r) == pc[r] = "done"
InFlight(r) == pc[r] \notin {"idle", "done"}
MissingWiring(r) == hist[r].form \in {"empty", "fabOnly"}
HasWiring(r) == hist[r].form \in {"wiring", "both"}
NoToolCall(r) == hist[r].initCalls = 0 /\ hist[r].validateCalls = 0

\* the message text as the claim C1 quotes it
ClaimedMissingMessage == <<"m","i","s","s","i","n","g"," ","r","e","q","u","i","r","e","d"," ","f","i","l","e">>

\* C1 as stated: a request without the 'wiring' file is answered with HTTP 400,
\* success=false and the message "missing required file", before any temporary
\* directory is created or the tool is invoked.
C1_MissingFileAsStated ==
  \A r \in Reqs : Done(r) /\ MissingWiring(r) =>
    /\ resp[r].status = StatusBadRequest
    /\ resp[r].success = FALSE
    /\ resp[r].message = ClaimedMissingMessage
    /\ ~hist[r].created
    /\ NoToolCall(r)

\* C1 amended: a request without the 'wiring' file is answered with HTTP 400,
\* success=false and the message "Missing required wiring file", before any
\* temporary directory is created or the tool is invoked.
C1_MissingFile ==
  \A r \in Reqs : Done(r) /\ MissingWiring(r) =>
    /\ resp[r].status = StatusBadRequest
    /\ resp[r].success = FALSE
    /\ resp[r].message = MsgMissingWiring
    /\ ~hist[r].created
    /\ NoToolCall(r)
C1_Witness == \E r \in Reqs : Done(r) /\ hist[r].form = "fabOnly"

\* C2 as stated: every response to a request that carries the wiring file has
\* use_case "uc1" when no fab file was uploaded and "uc2" when one was, also on
\* the file-save and directory-creation failure paths.
C2_UseCaseOnEveryPath ==
  \A r \in Reqs : Done(r) /\ HasWiring(r) =>
    resp[r].useCase = IF hist[r].form = "both" THEN "uc2" ELSE "uc1"

\* C3: when 'hhfab validate' has run, the response's output field is the
\* captured combined output, unchanged, for every exit code and every output.
C3_OutputVerbatim ==
  \A r \in Reqs : Done(r) /\ hist[r].valRes.kind = "exit" =>
    resp[r].output = hist[r].valRes.out
C3_Witness ==
  \E r \in Reqs : /\ Done(r)
                  /\ hist[r].valRes = Exit(1, OutErr)
                  /\ resp[r].output = OutErr

\* C4: a temporary directory, with whatever was staged in it, exists only
\* while the request that created it is being handled; when the request has
\* completed, on any exit path, nothing of it is left.
C4_TempDirRemoved ==
  \A d \in TempNames :
    \/ \E r \in Reqs : InFlight(r) /\ tempDir[r] = d
    \/ fs[d] = NoDir
C4_Witness ==
  \E r \in Reqs : Done(r) /\ hist[r].created /\ hist[r].validateCalls = 1

\* C5 as stated: after a failure to create the temporary directory or a
\* sub-directory or to write an uploaded file, the response is HTTP 500 with
\* success=false and the tool has not been invoked at all, in both variants.
FsFailures == {"mkdirTemp", "mkWork", "mkInclude", "saveWiring", "saveFab"}
C5_NoToolAfterFsFailureAsStated ==
  \A r \in Reqs : Done(r) /\ hist[r].fsFail \in FsFailures =>
    /\ resp[r].status = StatusInternalServerError
    /\ resp[r].success = FALSE
    /\ NoToolCall(r)

\* C5 amended: after such a failure the response is HTTP 500 with
\* success=false and 'hhfab validate' has not been invoked; 'hhfab init' has
\* not been invoked either in server/main.go, nor in the other variant when
\* the temporary or the work directory could not be created; in that variant
\* a failure to create the include directory or to write an uploaded file
\* comes after one 'hhfab init' that exited zero.
C5_NoToolAfterFsFailure ==
  \A r \in Reqs : Done(r) /\ hist[r].fsFail \in FsFailures =>
    /\ resp[r].status = StatusInternalServerError
    /\ resp[r].success = FALSE
    /\ hist[r].validateCalls = 0
    /\ IF variant = "part_001" /\ hist[r].fsFail \in {"mkInclude", "saveWiring", "saveFab"}
       THEN hist[r].initCalls = 1 /\ hist[r].initRes.kind = "exit" /\ hist[r].initRes.code = 0
       ELSE hist[r].initCalls = 0
C5_Witness ==
  \E r \in Reqs : Done(r) /\ hist[r].fsFail = "saveFab" /\ variant = "server"

\* C6 as stated: when 'hhfab validate' exits non-zero, output with the marker
\* gives "Validation failed" with HTTP 400 and output without the marker gives
\* "Failed to run validation" with HTTP 500, in both variants.
C6_MarkerClassification ==
  \A r \in Reqs :
    Done(r) /\ hist[r].valRes.kind = "exit" /\ hist[r].valRes.code # 0 =>
      IF Contains(hist[r].valRes.out, ERR)
      THEN resp[r].message = MsgValidationFailed /\ resp[r].status = StatusBadRequest
      ELSE resp[r].message = MsgRunFailed /\ resp[r].status = StatusInternalServerError

\* C7 as stated: the response to a request that found no 'hhfab' on the path
\* differs in message and in status from the response to a request whose
\* input the tool ran on and rejected, and /health answers 503 exactly when
\* the tool is not found.
ToolNotFound(r) == hist[r].initRes.kind = "notfound" \/ hist[r].valRes.kind = "notfound"
ToolRejected(r) ==
  /\ hist[r].valRes.kind = "exit"
  /\ hist[r].valRes.code # 0
  /\ Contains(hist[r].valRes.out, ERR)
C7_ToolUnavailableDistinct ==
  /\ \A r1, r2 \in Reqs :
       Done(r1) /\ Done(r2) /\ ToolNotFound(r1) /\ ToolRejected(r2) =>
         /\ resp[r1].message # resp[r2].message
         /\ resp[r1].status # resp[r2].status
  /\ health.status # 0 => (health.status = StatusServiceUnavailable <=> ~health.found)

\* C8 as stated: every request that has been received is eventually answered,
\* also when a subprocess of the tool never exits.
C8_EveryRequestAnswered ==
  \A r \in Reqs : (pc[r] # "idle") ~> (pc[r] = "done")

\* C9: requests handled at the same time have different temporary
\* directories, every staged file lies in the directory of the request that
\* uploaded it, and the tool run for a request reads only that request's
\* files (or the default fab.yaml the tool generated itself).
ContentFields == {"wiring", "fab", "workFab", "includeWiring"}
C9_Isolation ==
  /\ \A r1, r2 \in Reqs :
       r1 # r2 /\ tempDir[r1] # None => tempDir[r1] # tempDir[r2]
  /\ \A d \in TempNames : \A c \in ContentFields :
       fs[d][c] \in Reqs => tempDir[fs[d][c]] = d
  /\ \A r \in Reqs : hist[r].read \subseteq {r, Default}
C9_Witness ==
  \E r1, r2 \in Reqs :
    /\ r1 # r2
    /\ pc[r1] = "validate" /\ pc[r2] = "validate"
    /\ fs[tempDir[r1]].includeWiring = r1
    /\ fs[tempDir[r2]].includeWiring = r2

\* C10 as stated: the external tool is invoked at most once per request.
C10_AtMostOneInvocationAsStated ==
  \A r \in Reqs : hist[r].initCalls + hist[r].validateCalls <= 1

\* C10 amended: per request 'hhfab init' is invoked at most once and
\* 'hhfab validate' at most once (two invocations of the tool at most), and a
\* failed invocation is never repeated: a failed init ends the request without
\* a validate, a failed validate ends the request.
C10_NoRetry ==
  \A r \in Reqs :
    /\ hist[r].initCalls <= 1
    /\ hist[r].validateCalls <= 1
    /\ Failed(hist[r].initRes) => Done(r) /\ hist[r].validateCalls = 0
    /\ Failed(hist[r].valRes) => Done(r)
C10_Witness ==
  \E r \in Reqs : /\ Done(r)
                  /\ hist[r].initCalls = 1
                  /\ hist[r].validateCalls = 1
                  /\ Failed(hist[r].valRes)

\* C11: a response with success=true has an empty error field.
C11_NoErrorOnSuccess ==
  \A r \in Reqs : Done(r) /\ resp[r].success => resp[r].error = <<>>
C11_Witness ==
  \E r \in Reqs : Done(r) /\ resp[r].success /\ resp[r].status = StatusOK

\* C13 as stated: on a successful validation the response's message contains
\* the output text of the tool, in both variants.
C13_MessageContainsOutput ==
  \A r \in Reqs : Done(r) /\ resp[r].success /\ resp[r].status = StatusOK =>
    Contains(resp[r].message, hist[r].valRes.out)

\* C14: 'hhfab validate' is invoked for a request only after 'hhfab init' was
\* invoked once for it and exited zero; in the init-first variant the wiring
\* file, and with a fab upload the user's fab.yaml in place of the default
\* one, are in the work directory when validate is invoked, so that the
\* validate run reads exactly those.
InitSucceeded(r) ==
  /\ hist[r].initCalls = 1
  /\ hist[r].initRes.kind = "exit"
  /\ hist[r].initRes.code = 0
C14_ValidateAfterInit ==
  \A r \in Reqs :
    /\ pc[r] = "validate" \/ hist[r].validateCalls > 0 => InitSucceeded(r)
    /\ pc[r] = "validate" /\ variant = "part_001" =>
         /\ fs[tempDir[r]].includeWiring = r
         /\ fs[tempDir[r]].workFab = IF useCase[r] = "uc2" THEN r ELSE Default
    /\ hist[r].valRes.kind \in {"exit", "hang"} /\ variant = "part_001" =>
         hist[r].read = IF useCase[r] = "uc2" THEN {r} ELSE {r, Default}
C14_Witness ==
  \E r \in Reqs : /\ Done(r)
                  /\ variant = "part_001"
                  /\ useCase[r] = "uc2"
                  /\ hist[r].valRes.kind = "exit"
                  /\ hist[r].read = {r}

\* C15: a request that has been handled has had exactly one c.JSON call, and
\* a request still being handled none.
C15_ExactlyOneResponse ==
  \A r \in Reqs : hist[r].jsonCalls = IF Done(r) THEN 1 ELSE 0
C15_Witness ==
  \E r \in Reqs : Done(r) /\ hist[r].fsFail = "saveWiring" /\ hist[r].jsonCalls = 1

\* C16: in every response the status is 200 exactly when success=true, and
\* success=true exactly when 'hhfab init' and 'hhfab validate' both ran and
\* both exited zero.
ValidateSucceeded(r) ==
  /\ hist[r].validateCalls = 1
  /\ hist[r].valRes.kind = "exit"
  /\ hist[r].valRes.code = 0
C16_StatusAgreesWithSuccess ==
  \A r \in Reqs : Done(r) =>
    /\ resp[r].status = StatusOK <=> resp[r].success
    /\ resp[r].success <=> InitSucceeded(r) /\ ValidateSucceeded(r)
C16_Witness ==
  \E r1, r2 \in Reqs :
    /\ Done(r1) /\ resp[r1].success
    /\ Done(r2) /\ ~resp[r2].success /\ hist[r2].validateCalls = 1

\* ---- the error summary, stated on the positions of the output text ----
MarkerAt(s, i) == i + 2 <= Len(s) /\ s[i] = "E" /\ s[i + 1] = "R" /\ s[i + 2] = "R"
MarkerSpaceAt(s, i) == MarkerAt(s, i) /\ i + 3 <= Len(s) /\ s[i + 3] = " "
HasMarker(s) == \E i \in 1..Len(s) : MarkerAt(s, i)
HasMarkerSpace(s) == \E i \in 1..Len(s) : MarkerSpaceAt(s, i)
FirstMarker(s) ==
  CHOOSE i \in 1..Len(s) : MarkerAt(s, i) /\ \A j \in 1..(i - 1) : ~MarkerAt(s, j)
FirstMarkerSpace(s) ==
  CHOOSE i \in 1..Len(s) : MarkerSpaceAt(s, i) /\ \A j \in 1..(i - 1) : ~MarkerSpaceAt(s, j)
\* the first and the last position of the line that position i lies in
LineStart(s, i) ==
  CHOOSE a \in 1..i : (a = 1 \/ s[a - 1] = "\n") /\ \A k \in a..(i - 1) : s[k] # "\n"
LineEnd(s, i) ==
  CHOOSE e \in (i - 1)..Len(s) : (e = Len(s) \/ s[e + 1] = "\n") /\ \A k \in i..e : s[k] # "\n"
\* t is s[a..b] without the white space at its two ends
IsTrimOf(t, s, a, b) ==
  \E a2 \in a..(b + 1) : \E b2 \in (a2 - 1)..b :
    /\ t = SubSeq(s, a2, b2)
    /\ \A k \in a..(a2 - 1) : s[k] = " "
    /\ \A k \in (b2 + 1)..b : s[k] = " "
    /\ a2 <= b2 => s[a2] # " " /\ s[b2] # " "

\* the example of the repository's test
TestOutputSimple == <<"0","6",":","3","8",":","1","7"," ","E","R","R"," ","v","a","l","i","d","a","t","i","n","g",":"," ","s","o","m","e"," ","e","r","r","o","r"," ","o","c","c","u","r","r","e","d">>
TestExpectedSimple == <<"v","a","l","i","d","a","t","i","n","g",":"," ","s","o","m","e"," ","e","r","r","o","r"," ","o","c","c","u","r","r","e","d">>

\* C12 as stated: the summary is the trimmed text after the first "ERR " of
\* the first line that contains "ERR", and it is the sentinel exactly when no
\* line contains "ERR".
C12_ExtractAsStated ==
  ex.pc = "extracted" =>
    LET s == ex.output IN
    /\ ex.summary = UnknownValidationError <=> ~HasMarker(s)
    /\ HasMarker(s) =>
         LET a == LineStart(s, FirstMarker(s))
             e == LineEnd(s, FirstMarker(s))
         IN \E p \in a..e :
              /\ MarkerSpaceAt(s, p)
              /\ \A j \in a..(p - 1) : ~MarkerSpaceAt(s, j)
              /\ IsTrimOf(ex.summary, s, p + 4, e)

\* C12 amended: the summary is the trimmed text between the first "ERR " (the
\* marker followed by a space) of the output and the end of its line; lines
\* that contain "ERR" without a following space are passed over; the summary
\* is the sentinel when no line contains "ERR ".  The example of the test
\* yields "validating: some error occurred".
C12_Extract ==
  /\ extractErrorMessage(TestOutputSimple) = TestExpectedSimple
  /\ ex.pc = "extracted" =>
       LET s == ex.output IN
       IF HasMarkerSpace(s)
       THEN LET p == FirstMarkerSpace(s)
            IN IsTrimOf(ex.summary, s, p + 4, LineEnd(s, p))
       ELSE ex.summary = UnknownValidationError
C12_Witness ==
  /\ ex.pc = "extracted"
  /\ ex.output = ERR \o <<"\n">> \o ERR \o <<" ", "x">>
  /\ ex.summary = <<"x">>

\* C17 as stated: in server/main.go a response with success=false has a
\* non-empty error field, and the summary extracted from an output that
\* contains "ERR" is never empty.
C17_FailureHasError ==
  /\ ex.pc = "responded" /\ variant = "server" /\ ~ex.resp.success =>
       ex.resp.error # <<>>
  /\ ex.pc = "extracted" /\ HasMarker(ex.output) => ex.summary # <<>>

====
